---- MODULE Spec2Model ----
(***************************************************************************)
(* Jobly: the filter-clause builders of the Company and Job models         *)
(* (createFilterSql), the partial update / remove / findAll operations on  *)
(* the jobs and companies tables, and the /jobs routes.                    *)
(*                                                                         *)
(* A JavaScript string is a sequence of one-character strings, so that     *)
(* concatenation, joining, number formatting and the comparison of two     *)
(* strings are computed and not assumed.                                   *)
(***************************************************************************)
EXTENDS Integers, Sequences, FiniteSets

VARIABLES jobs, companies, nextId, last, tasks

vars == <<jobs, companies, nextId, last, tasks>>

(***************************************************************************)
(* Bounds of the model.                                                    *)
(***************************************************************************)
\* numeric filter inputs are 0..MaxNum (and the decimal strings of these)
MaxNum == 11
\* ids handed out by the jobs table's serial column are 1..MaxId
MaxId == 2

(***************************************************************************)
(* JavaScript values.                                                      *)
(***************************************************************************)
Undefined == [t |-> "undefined"]
Null == [t |-> "null"]
Num(n) == [t |-> "number", n |-> n]
Str(s) == [t |-> "string", s |-> s]
Bool(b) == [t |-> "boolean", b |-> b]

\* the characters the model uses, in code-unit order
CodeUnits ==
  << " ", "$", "%", "0", "1", "2", "3", "4", "5", "6", "7", "8", "9",
     "<", "=", ">", "A", "B", "C", "D", "E", "F", "G", "H", "I", "J", "K",
     "L", "M", "N", "O", "P", "Q", "R", "S", "T", "U", "V", "W", "X", "Y",
     "Z", "_", "a", "b", "c", "d", "e", "f", "g", "h", "i", "j", "k", "l",
     "m", "n", "o", "p", "q", "r", "s", "t", "u", "v", "w", "x", "y", "z" >>

CodeUnit(c) == CHOOSE i \in 1..Len(CodeUnits) : CodeUnits[i] = c

Digits == <<"0", "1", "2", "3", "4", "5", "6", "7", "8", "9">>

IsDigit(c) == \E d \in 1..10 : Digits[d] = c

DigitValue(c) == (CHOOSE d \in 1..10 : Digits[d] = c) - 1

\* Number -> String for a non-negative integer: its decimal digits
RECURSIVE NumberToString(_)
NumberToString(n) ==
  IF n < 10 THEN <<Digits[n + 1]>>
  ELSE NumberToString(n \div 10) \o <<Digits[(n % 10) + 1]>>

\* the value of a string of decimal digits
RECURSIVE DigitsToNumber(_)
DigitsToNumber(s) ==
  IF Len(s) = 0 THEN 0
  ELSE 10 * DigitsToNumber(SubSeq(s, 1, Len(s) - 1)) + DigitValue(s[Len(s)])

\* the conversion a template literal `${v}` applies
ToString(v) ==
  CASE v.t = "string" -> v.s
    [] v.t = "number" -> NumberToString(v.n)
    [] v.t = "boolean" ->
         IF v.b THEN <<"t", "r", "u", "e">> ELSE <<"f", "a", "l", "s", "e">>
    [] v.t = "null" -> <<"n", "u", "l", "l">>
    [] OTHER -> <<"u", "n", "d", "e", "f", "i", "n", "e", "d">>

NaN == [nan |-> TRUE, n |-> 0]

\* the conversion `<` applies to an operand when not both are strings
ToNumber(v) ==
  CASE v.t = "number" -> [nan |-> FALSE, n |-> v.n]
    [] v.t = "null" -> [nan |-> FALSE, n |-> 0]
    [] v.t = "boolean" -> [nan |-> FALSE, n |-> IF v.b THEN 1 ELSE 0]
    [] v.t = "string" ->
         IF \A i \in 1..Len(v.s) : IsDigit(v.s[i])
         THEN [nan |-> FALSE, n |-> DigitsToNumber(v.s)]
         ELSE NaN
    [] OTHER -> NaN

\* the condition of `v ? ... : null`
Truthy(v) ==
  CASE v.t = "number" -> v.n # 0
    [] v.t = "string" -> Len(v.s) > 0
    [] v.t = "boolean" -> v.b
    [] OTHER -> FALSE

\* s < t for two strings: by code units, a proper prefix being smaller
RECURSIVE StringLess(_, _)
StringLess(s, t) ==
  IF Len(t) = 0 THEN FALSE
  ELSE IF Len(s) = 0 THEN TRUE
  ELSE IF s[1] = t[1] THEN StringLess(Tail(s), Tail(t))
  ELSE CodeUnit(s[1]) < CodeUnit(t[1])

\* a < b as JavaScript evaluates it
LessThan(a, b) ==
  IF a.t = "string" /\ b.t = "string" THEN StringLess(a.s, b.s)
  ELSE LET x == ToNumber(a)
           y == ToNumber(b)
       IN  ~x.nan /\ ~y.nan /\ x.n < y.n

\* Array.prototype.join
RECURSIVE Join(_, _)
Join(parts, sep) ==
  IF Len(parts) = 0 THEN <<>>
  ELSE IF Len(parts) = 1 THEN parts[1]
  ELSE parts[1] \o sep \o Join(Tail(parts), sep)

(***************************************************************************)
(* What a call gives back: a returned value or a thrown error.             *)
(***************************************************************************)
Throw(e) == [kind |-> "throw", error |-> e]
Return(v) == [kind |-> "return", value |-> v]

\* the two values createFilterSql returns
NoFilter == [type |-> "false"]
Clause(text, values) ==
  [type |-> "object", sqlStatments |-> text, sanatizedStatments |-> values]

\* PushFilter numbering the placeholder with the length before the push,
\* without the + 1
PushFilterFromZero(acc, cond, frag, value) ==
  IF Truthy(cond)
  THEN [sql |-> Append(acc.sql, frag \o NumberToString(Len(acc.sql))),
        san |-> Append(acc.san, value)]
  ELSE acc

\* one `cond ? sqlStatments.push(frag + (length + 1)) && sanatizedStatments.push(value) : null`
PushFilter(acc, cond, frag, value) ==
  IF Truthy(cond)
  THEN [sql |-> Append(acc.sql, frag \o NumberToString(Len(acc.sql) + 1)),
        san |-> Append(acc.san, value)]
  ELSE acc

\* the tail of createFilterSql giving an object in every case, with an empty
\* clause when there is no fragment
FilterResultAlwaysObject(acc) ==
  IF Len(acc.sql) > 0
  THEN Return(Clause(<<"W", "H", "E", "R", "E", " ">>
                       \o Join(acc.sql, <<" ", "A", "N", "D", " ">>),
                     acc.san))
  ELSE Return(Clause(<<>>, acc.san))

\* the tail of createFilterSql: the clause object, or false
FilterResult(acc) ==
  IF Len(acc.sql) > 0
  THEN Return(Clause(<<"W", "H", "E", "R", "E", " ">>
                       \o Join(acc.sql, <<" ", "A", "N", "D", " ">>),
                     acc.san))
  ELSE Return(NoFilter)

CompanyCreateFilterSql(name, minEmployees, maxEmployees) ==
  LET a0 == [sql |-> <<>>, san |-> <<>>]
      a1 == PushFilter(a0, name,
              <<"n", "a", "m", "e", " ", "I", "L", "I", "K", "E", " ", "$">>,
              ToString(name) \o <<"%">>)
      a2 == PushFilter(a1, minEmployees,
              <<"n", "u", "m", "_", "e", "m", "p", "l", "o", "y", "e", "e", "s",
                " ", ">", " ", "$">>,
              ToString(minEmployees))
      a3 == PushFilter(a2, maxEmployees,
              <<"n", "u", "m", "_", "e", "m", "p", "l", "o", "y", "e", "e", "s",
                " ", "<", " ", "$">>,
              ToString(maxEmployees))
  IN  IF LessThan(maxEmployees, minEmployees)
      THEN Throw("BadRequestError")
      ELSE FilterResult(a3)

\* Job.createFilterSql treating hasEquity like the other two inputs: a
\* numbered placeholder and a bind value
JobCreateFilterSqlBindingEquity(title, minSalary, hasEquity) ==
  LET a0 == [sql |-> <<>>, san |-> <<>>]
      a1 == PushFilter(a0, title,
              <<"t", "i", "t", "l", "e", " ", "I", "L", "I", "K", "E", " ", "$">>,
              ToString(title) \o <<"%">>)
      a2 == PushFilter(a1, minSalary,
              <<"s", "a", "l", "a", "r", "y", " ", ">", " ", "$">>,
              ToString(minSalary))
      a3 == PushFilter(a2, hasEquity,
              <<"e", "q", "u", "i", "t", "y", " ", ">", " ", "$">>,
              ToString(hasEquity))
  IN  FilterResult(a3)

JobCreateFilterSql(title, minSalary, hasEquity) ==
  LET a0 == [sql |-> <<>>, san |-> <<>>]
      a1 == PushFilter(a0, title,
              <<"t", "i", "t", "l", "e", " ", "I", "L", "I", "K", "E", " ", "$">>,
              ToString(title) \o <<"%">>)
      a2 == PushFilter(a1, minSalary,
              <<"s", "a", "l", "a", "r", "y", " ", ">", " ", "$">>,
              ToString(minSalary))
      a3 == IF Truthy(hasEquity)
            THEN [a2 EXCEPT !.sql =
                    Append(@, <<"e", "q", "u", "i", "t", "y", " ", ">", " ", "0">>)]
            ELSE a2
  IN  FilterResult(a3)

(***************************************************************************)
(* The inputs the filter builders are called with.                         *)
(***************************************************************************)
NumberInputs == {Num(n) : n \in 0..MaxNum} \cup {Num(200), Num(500)}
DigitStringInputs == {Str(NumberToString(n)) : n \in 0..MaxNum}
BoundInputs ==
  {Undefined, Null, Str(<<>>)} \cup NumberInputs \cup DigitStringInputs
NameInputs == {Undefined, Str(<<>>), Str(<<"b", "a">>)}
TitleInputs == {Undefined, Str(<<>>), Str(<<"t", "e", "s", "t">>)}
SalaryInputs == BoundInputs \cup {Num(100000)}
EquityInputs ==
  {Undefined, Bool(TRUE), Bool(FALSE), Str(<<"t", "r", "u", "e">>),
   Str(<<"f", "a", "l", "s", "e">>)}

NoCall == [fn |-> "none"]
\* a call that has been made and has not yet run
Pending == [kind |-> "pending"]

FilterInit ==
  /\ jobs = {}
  /\ companies = {}
  /\ nextId = 1
  /\ tasks = <<>>
  /\ last \in
       {[fn |-> "Company.createFilterSql", args |-> <<name, lo, hi>>, out |-> Pending] :
          name \in NameInputs, lo \in BoundInputs, hi \in BoundInputs}
       \cup
       {[fn |-> "Job.createFilterSql", args |-> <<title, lo, eq>>, out |-> Pending] :
          title \in TitleInputs, lo \in SalaryInputs, eq \in EquityInputs}

CallCompanyCreateFilterSql ==
  /\ last.fn = "Company.createFilterSql"
  /\ last.out = Pending
  /\ last' = [last EXCEPT !.out =
                CompanyCreateFilterSql(last.args[1], last.args[2], last.args[3])]
  /\ UNCHANGED <<jobs, companies, nextId, tasks>>

CallJobCreateFilterSql ==
  /\ last.fn = "Job.createFilterSql"
  /\ last.out = Pending
  /\ last' = [last EXCEPT !.out =
                JobCreateFilterSql(last.args[1], last.args[2], last.args[3])]
  /\ UNCHANGED <<jobs, companies, nextId, tasks>>

FilterNext == CallCompanyCreateFilterSql \/ CallJobCreateFilterSql

SpecFilter == FilterInit /\ [][FilterNext]_vars

(***************************************************************************)
(* The database: the jobs and companies tables and the statements the     *)
(* models send to db.query.  A table is a set of rows whose fields hold    *)
(* the JavaScript values the driver binds and returns.                     *)
(***************************************************************************)
\* the pieces of text between the occurrences of sep
RECURSIVE Split(_, _)
Split(text, sep) ==
  IF \E i \in 1..(Len(text) - Len(sep) + 1) : SubSeq(text, i, i + Len(sep) - 1) = sep
  THEN LET i == CHOOSE j \in 1..(Len(text) - Len(sep) + 1) :
                  /\ SubSeq(text, j, j + Len(sep) - 1) = sep
                  /\ \A k \in 1..(j - 1) : SubSeq(text, k, k + Len(sep) - 1) # sep
       IN  <<SubSeq(text, 1, i - 1)>> \o Split(SubSeq(text, i + Len(sep), Len(text)), sep)
  ELSE <<text>>

\* the row field a column name of a statement denotes
ColumnField(col) ==
  CASE col = <<"i", "d">> -> "id"
    [] col = <<"t", "i", "t", "l", "e">> -> "title"
    [] col = <<"s", "a", "l", "a", "r", "y">> -> "salary"
    [] col = <<"e", "q", "u", "i", "t", "y">> -> "equity"
    [] col = <<"c", "o", "m", "p", "a", "n", "y", "_", "h", "a", "n", "d", "l", "e">>
         -> "company_handle"
    [] col = <<"h", "a", "n", "d", "l", "e">> -> "handle"
    [] col = <<"n", "a", "m", "e">> -> "name"
    [] col = <<"d", "e", "s", "c", "r", "i", "p", "t", "i", "o", "n">> -> "description"
    [] col = <<"n", "u", "m", "_", "e", "m", "p", "l", "o", "y", "e", "e", "s">>
         -> "num_employees"
    [] col = <<"l", "o", "g", "o", "_", "u", "r", "l">> -> "logo_url"
    [] OTHER -> "?"

\* the columns of integer type: a parameter compared with one must be an
\* integer or the decimal text of one
IntegerFields == {"id", "salary", "num_employees"}

\* the key a WHERE <key> = $n parameter selects: an integer key by value, a
\* text key by its text
KeyMatches(field, stored, param) ==
  IF field \in IntegerFields
  THEN ToNumber(param).n = stored.n
  ELSE ToString(param) = stored.s

\* the database refuses a parameter that is no integer for an integer column
\* (PATCH /jobs/nope is answered 500)
BadParameter(field, param) ==
  /\ field \in IntegerFields
  /\ \/ param.t \notin {"number", "string"}
     \/ param.t = "string" /\ (Len(param.s) = 0 \/ ToNumber(param).nan)

\* SET <col> = $<n>, ... applied to a row
RECURSIVE Assign(_, _, _)
Assign(row, assignments, values) ==
  IF Len(assignments) = 0 THEN row
  ELSE LET a == Split(assignments[1], <<" ", "=", " ", "$">>)
       IN  Assign([row EXCEPT ![ColumnField(a[1])] = values[DigitsToNumber(a[2])]],
                  Tail(assignments), values)

\* UPDATE <table> SET <setCols> WHERE <keyCol> = $<n> RETURNING ...: the
\* table afterwards and the rows returned, or the database's error
DbUpdate(table, setCols, where, values) ==
  LET w == Split(where, <<" ", "=", " ", "$">>)
      field == ColumnField(w[1])
      param == values[DigitsToNumber(w[2])]
      hit == {r \in table : KeyMatches(field, r[field], param)}
      new(r) == Assign(r, Split(setCols, <<",", " ">>), values)
  IN  IF BadParameter(field, param)
      THEN [error |-> "DatabaseError", table |-> table, rows |-> {}]
      ELSE [error |-> "none",
            table |-> (table \ hit) \cup {new(r) : r \in hit},
            rows |-> {new(r) : r \in hit}]

\* DELETE FROM <table> WHERE <keyCol> = $1 RETURNING <keyCol>
DbDelete(table, field, param) ==
  LET hit == {r \in table : KeyMatches(field, r[field], param)}
  IN  IF BadParameter(field, param)
      THEN [error |-> "DatabaseError", table |-> table, rows |-> {}]
      ELSE [error |-> "none", table |-> table \ hit, rows |-> hit]

\* a statement sent to db.query: its verb, its table and its WHERE clause
Query(verb, table, where) == [verb |-> verb, table |-> table, where |-> where]

(***************************************************************************)
(* helpers/sql.js, sqlForPartialUpdate(dataToUpdate, jsToSql).  An object  *)
(* is the sequence of its <<key, value>> pairs in insertion order, jsToSql *)
(* a set of <<key, column>> pairs.                                         *)
(***************************************************************************)
ColumnOf(key, jsToSql) ==
  IF \E p \in jsToSql : p[1] = key
  THEN (CHOOSE p \in jsToSql : p[1] = key)[2]
  ELSE key

SqlForPartialUpdate(dataToUpdate, jsToSql) ==
  IF Len(dataToUpdate) = 0
  THEN Throw("BadRequestError")
  ELSE Return([setCols |->
                 Join([i \in 1..Len(dataToUpdate) |->
                         ColumnOf(dataToUpdate[i][1], jsToSql)
                           \o <<" ", "=", " ", "$">> \o NumberToString(i)],
                      <<",", " ">>),
               values |-> [i \in 1..Len(dataToUpdate) |-> dataToUpdate[i][2]]])

\* lower case of a letter (ILIKE ignores case)
Lower(c) ==
  IF \E i \in 1..26 : CodeUnits[16 + i] = c
  THEN CodeUnits[43 + (CHOOSE i \in 1..26 : CodeUnits[16 + i] = c)]
  ELSE c

\* value ILIKE pattern, for a pattern that is a prefix followed by %
ILike(value, pattern) ==
  /\ value.t = "string"
  /\ Len(pattern) - 1 <= Len(value.s)
  /\ \A i \in 1..(Len(pattern) - 1) : Lower(value.s[i]) = Lower(pattern[i])

\* the right-hand side of a condition: the parameter $n, or a literal
Operand(rhs, params) ==
  IF rhs[1] = "$" THEN params[DigitsToNumber(Tail(rhs))] ELSE Str(rhs)

\* one condition `<col> <op> <rhs>` of a WHERE clause, on a row
Holds(row, cond, params) ==
  LET tok == Split(cond, <<" ">>)
      stored == row[ColumnField(tok[1])]
      operand == Operand(tok[3], params)
  IN  CASE tok[2] = <<"I", "L", "I", "K", "E">> -> ILike(stored, operand.s)
        [] tok[2] = <<">">> -> stored.t = "number" /\ stored.n > ToNumber(operand).n
        [] tok[2] = <<"<">> -> stored.t = "number" /\ stored.n < ToNumber(operand).n
        [] OTHER -> FALSE

\* SELECT ... FROM <table> <where> ORDER BY ...: the rows returned (as a set:
\* the ORDER BY only orders them), or the database's error
DbSelect(table, where, params) ==
  IF Len(where) = 0
  THEN [error |-> "none", rows |-> table]
  ELSE LET conds == Split(SubSeq(where, 7, Len(where)), <<" ", "A", "N", "D", " ">>)
           bad(c) == LET tok == Split(c, <<" ">>)
                     IN  BadParameter(ColumnField(tok[1]), Operand(tok[3], params))
       IN  IF \E i \in 1..Len(conds) : bad(conds[i])
           THEN [error |-> "DatabaseError", rows |-> {}]
           ELSE [error |-> "none",
                 rows |-> {r \in table :
                             \A i \in 1..Len(conds) : Holds(r, conds[i], params)}]

(***************************************************************************)
(* The Job model.  Each operation gives the call's outcome, the jobs table *)
(* afterwards and the statements it sent.                                  *)
(***************************************************************************)
TitleKey == <<"t", "i", "t", "l", "e">>
SalaryKey == <<"s", "a", "l", "a", "r", "y">>
EquityKey == <<"e", "q", "u", "i", "t", "y">>

JobJsToSql ==
  {<<TitleKey, TitleKey>>, <<SalaryKey, SalaryKey>>, <<EquityKey, EquityKey>>}

\* RETURNING id, title, salary, equity, company_handle AS "companyHandle"
JobReturning(r) ==
  [id |-> r.id, title |-> r.title, salary |-> r.salary, equity |-> r.equity,
   companyHandle |-> r.company_handle]

Effect(out, table, queries) == [out |-> out, table |-> table, queries |-> queries]

\* the strings of sanatizedStatments as the values bound to $1, $2, ...
Strings(texts) == [i \in 1..Len(texts) |-> Str(texts[i])]

JobFindAll(table, title, minSalary, hasEquity) ==
  LET f == JobCreateFilterSql(title, minSalary, hasEquity)
      given == f.value.type = "object"
      sqlStatments == IF given THEN f.value.sqlStatments ELSE <<>>
      jobsRes == DbSelect(table, sqlStatments,
                          IF given THEN Strings(f.value.sanatizedStatments) ELSE <<>>)
      sent == <<Query("SELECT", "jobs", sqlStatments)>>
  IN  IF jobsRes.error # "none"
      THEN Effect(Throw(jobsRes.error), table, sent)
      ELSE Effect(Return({JobReturning(r) : r \in jobsRes.rows}), table, sent)

\* the UPDATE of Job.update with the id's placeholder numbered Len(values),
\* without the + 1
JobUpdateQueryLastValue(table, id, setCols, values) ==
  LET idVarIdx == <<"$">> \o NumberToString(Len(values))
      where == <<"i", "d", " ", "=", " ">> \o idVarIdx
      result == DbUpdate(table, setCols, where, Append(values, id))
      sent == <<Query("UPDATE", "jobs", where)>>
  IN  IF result.error # "none" THEN Effect(Throw(result.error), result.table, sent)
      ELSE IF result.rows = {}
           THEN Effect(Throw("NotFoundError"), result.table, sent)
           ELSE Effect(Return(JobReturning(CHOOSE r \in result.rows : TRUE)),
                       result.table, sent)

\* Job.update from idVarIdx on: the UPDATE and what is made of its result
JobUpdateQuery(table, id, setCols, values) ==
  LET idVarIdx == <<"$">> \o NumberToString(Len(values) + 1)
      where == <<"i", "d", " ", "=", " ">> \o idVarIdx
      result == DbUpdate(table, setCols, where, Append(values, id))
      sent == <<Query("UPDATE", "jobs", where)>>
  IN  IF result.error # "none" THEN Effect(Throw(result.error), result.table, sent)
      ELSE IF result.rows = {}
           THEN Effect(Throw("NotFoundError"), result.table, sent)
           ELSE Effect(Return(JobReturning(CHOOSE r \in result.rows : TRUE)),
                       result.table, sent)

\* Job.update catching the error of sqlForPartialUpdate and sending the
\* UPDATE all the same, with nothing to set
JobUpdateSendingAnyway(table, id, data) ==
  LET c == SqlForPartialUpdate(data, JobJsToSql)
  IN  IF c.kind = "throw"
      THEN Effect(Throw("DatabaseError"), table,
                  <<Query("UPDATE", "jobs", <<"i", "d", " ", "=", " ", "$", "1">>)>>)
      ELSE JobUpdateQuery(table, id, c.value.setCols, c.value.values)

JobUpdate(table, id, data) ==
  LET c == SqlForPartialUpdate(data, JobJsToSql)
  IN  IF c.kind = "throw" THEN Effect(c, table, <<>>)
      ELSE JobUpdateQuery(table, id, c.value.setCols, c.value.values)

\* Job.remove without the check of the rows the DELETE returned
JobRemoveUnchecked(table, id) ==
  LET result == DbDelete(table, "id", id)
      sent == <<Query("DELETE", "jobs", <<"i", "d", " ", "=", " ", "$", "1">>)>>
  IN  IF result.error # "none" THEN Effect(Throw(result.error), result.table, sent)
      ELSE Effect(Return(Undefined), result.table, sent)

JobRemove(table, id) ==
  LET result == DbDelete(table, "id", id)
      sent == <<Query("DELETE", "jobs", <<"i", "d", " ", "=", " ", "$", "1">>)>>
  IN  IF result.error # "none" THEN Effect(Throw(result.error), result.table, sent)
      ELSE IF result.rows = {}
           THEN Effect(Throw("NotFoundError"), result.table, sent)
           ELSE Effect(Return(Undefined), result.table, sent)

JobDuplicateWhere ==
  <<"c", "o", "m", "p", "a", "n", "y", "_", "h", "a", "n", "d", "l", "e",
    " ", "=", " ", "$", "1", " ", "A", "N", "D", " ",
    "t", "i", "t", "l", "e", " ", "=", " ", "$", "2">>

\* the rows of Job.create's first query, run on table
JobDuplicateCheck(table, data) ==
  {r \in table : r.company_handle = data.company_handle /\ r.title = data.title}

\* Job.create going on to the INSERT whatever the first query returned
JobCreateInsertingAnyway(table, serial, data, duplicateCheck) ==
  LET job == [id |-> Num(serial), title |-> data.title,
              salary |-> data.salary, equity |-> data.equity,
              company_handle |-> data.company_handle]
  IN  Effect(Return(JobReturning(job)), table \cup {job},
             <<Query("SELECT", "jobs", JobDuplicateWhere),
               Query("INSERT", "jobs", <<>>)>>)

\* Job.create from the answer of its first query on: table is the jobs
\* table when the INSERT runs, serial the id its serial column gives next
JobCreateInsert(table, serial, data, duplicateCheck) ==
  IF duplicateCheck # {}
  THEN Effect(Throw("BadRequestError"), table, <<Query("SELECT", "jobs", JobDuplicateWhere)>>)
  ELSE LET job == [id |-> Num(serial), title |-> data.title,
                   salary |-> data.salary, equity |-> data.equity,
                   company_handle |-> data.company_handle]
       IN  Effect(Return(JobReturning(job)), table \cup {job},
                  <<Query("SELECT", "jobs", JobDuplicateWhere),
                    Query("INSERT", "jobs", <<>>)>>)

\* Job.create with no other statement between its two queries
JobCreate(table, serial, data) ==
  JobCreateInsert(table, serial, data, JobDuplicateCheck(table, data))

(***************************************************************************)
(* The Company model.                                                      *)
(***************************************************************************)
NameKey == <<"n", "a", "m", "e">>
NumEmployeesKey == <<"n", "u", "m", "E", "m", "p", "l", "o", "y", "e", "e", "s">>
LogoUrlKey == <<"l", "o", "g", "o", "U", "r", "l">>

CompanyJsToSql ==
  {<<NumEmployeesKey,
     <<"n", "u", "m", "_", "e", "m", "p", "l", "o", "y", "e", "e", "s">> >>,
   <<LogoUrlKey, <<"l", "o", "g", "o", "_", "u", "r", "l">> >>}

\* RETURNING handle, name, description, num_employees AS "numEmployees",
\* logo_url AS "logoUrl"
CompanyReturning(r) ==
  [handle |-> r.handle, name |-> r.name, description |-> r.description,
   numEmployees |-> r.num_employees, logoUrl |-> r.logo_url]

CompanyFindAll(table, name, minEmployees, maxEmployees) ==
  LET f == CompanyCreateFilterSql(name, minEmployees, maxEmployees)
  IN  IF f.kind = "throw" THEN Effect(f, table, <<>>)
      ELSE
        LET given == f.value.type = "object"
            sqlStatments == IF given THEN f.value.sqlStatments ELSE <<>>
            companiesRes == DbSelect(table, sqlStatments,
                              IF given THEN Strings(f.value.sanatizedStatments) ELSE <<>>)
            sent == <<Query("SELECT", "companies", sqlStatments)>>
        IN  IF companiesRes.error # "none"
            THEN Effect(Throw(companiesRes.error), table, sent)
            ELSE Effect(Return({CompanyReturning(r) : r \in companiesRes.rows}), table,
                        sent)

CompanyUpdate(table, handle, data) ==
  LET c == SqlForPartialUpdate(data, CompanyJsToSql)
  IN  IF c.kind = "throw" THEN Effect(c, table, <<>>)
      ELSE
        LET handleVarIdx == <<"$">> \o NumberToString(Len(c.value.values) + 1)
            where == <<"h", "a", "n", "d", "l", "e", " ", "=", " ">> \o handleVarIdx
            result == DbUpdate(table, c.value.setCols, where,
                               Append(c.value.values, handle))
            sent == <<Query("UPDATE", "companies", where)>>
        IN  IF result.error # "none" THEN Effect(Throw(result.error), result.table, sent)
            ELSE IF result.rows = {}
                 THEN Effect(Throw("NotFoundError"), result.table, sent)
                 ELSE Effect(Return(CompanyReturning(CHOOSE r \in result.rows : TRUE)),
                             result.table, sent)

CompanyRemove(table, handle) ==
  LET result == DbDelete(table, "handle", handle)
      sent == <<Query("DELETE", "companies",
                      <<"h", "a", "n", "d", "l", "e", " ", "=", " ", "$", "1">>)>>
  IN  IF result.error # "none" THEN Effect(Throw(result.error), result.table, sent)
      ELSE IF result.rows = {}
           THEN Effect(Throw("NotFoundError"), result.table, sent)
           ELSE Effect(Return(Undefined), result.table, sent)

CompanyDuplicateWhere == <<"h", "a", "n", "d", "l", "e", " ", "=", " ", "$", "1">>

\* the rows of Company.create's first query, run on table
CompanyDuplicateCheck(table, data) == {r \in table : r.handle = data.handle}

\* Company.create from the answer of its first query on
CompanyCreateInsert(table, data, duplicateCheck) ==
  IF duplicateCheck # {}
  THEN Effect(Throw("BadRequestError"), table,
              <<Query("SELECT", "companies", CompanyDuplicateWhere)>>)
  ELSE LET company == [handle |-> data.handle, name |-> data.name,
                       description |-> data.description,
                       num_employees |-> data.numEmployees,
                       logo_url |-> data.logoUrl]
       IN  Effect(Return(CompanyReturning(company)), table \cup {company},
                  <<Query("SELECT", "companies", CompanyDuplicateWhere),
                    Query("INSERT", "companies", <<>>)>>)

CompanyCreate(table, data) ==
  CompanyCreateInsert(table, data, CompanyDuplicateCheck(table, data))

(***************************************************************************)
(* routes/jobs.js.  A request carries a token ("none", "invalid" or        *)
(* "valid"); whether its body passes the JSON schema is an input.  A       *)
(* handler gives the response, the jobs table afterwards, the statements   *)
(* sent and the Job functions it called.                                   *)
(***************************************************************************)
\* middleware/auth.js, ensureLoggedIn: passes only a request with a valid token
EnsureLoggedIn(token) ==
  IF token = "valid" THEN Return(Undefined) ELSE Throw("UnauthorizedError")

\* the status the error handler answers for an error passed to next(err)
StatusOf(error) ==
  CASE error = "BadRequestError" -> 400
    [] error = "UnauthorizedError" -> 401
    [] error = "NotFoundError" -> 404
    [] OTHER -> 500

Response(status) == [kind |-> "response", status |-> status]

Handled(out, table, queries, calls) ==
  [out |-> out, table |-> table, queries |-> queries, calls |-> calls]

\* what a handler answers after calling a Job function
Answer(e, ok, call) ==
  Handled(IF e.out.kind = "throw" THEN Response(StatusOf(e.out.error)) ELSE Response(ok),
          e.table, e.queries, <<call>>)

Rejected(error, table) == Handled(Response(StatusOf(error)), table, <<>>, <<>>)

PostJobs(table, serial, token, body, valid) ==
  IF EnsureLoggedIn(token).kind = "throw" THEN Rejected("UnauthorizedError", table)
  ELSE IF ~valid THEN Rejected("BadRequestError", table)
  ELSE Answer(JobCreate(table, serial, body), 201, "Job.create")

GetJobs(table, query) ==
  Answer(JobFindAll(table, query[1], query[2], query[3]), 200, "Job.findAll")

\* PATCH /:id registered without ensureLoggedIn
PatchJobsIdOpen(table, token, id, body, valid) ==
  IF ~valid THEN Rejected("BadRequestError", table)
  ELSE Answer(JobUpdate(table, id, body), 200, "Job.update")

PatchJobsId(table, token, id, body, valid) ==
  IF EnsureLoggedIn(token).kind = "throw" THEN Rejected("UnauthorizedError", table)
  ELSE IF ~valid THEN Rejected("BadRequestError", table)
  ELSE Answer(JobUpdate(table, id, body), 200, "Job.update")

DeleteJobsId(table, token, id) ==
  IF EnsureLoggedIn(token).kind = "throw" THEN Rejected("UnauthorizedError", table)
  ELSE Answer(JobRemove(table, id), 200, "Job.remove")

(***************************************************************************)
(* The tables and the calls of the specification Spec.  A behaviour is one *)
(* call made in one state of the database: the initial states are all the  *)
(* tables the operations can build within the bounds, each with one call   *)
(* that has not run yet, so a step of any longer run is a step from one of *)
(* these states.  A call on one model starts from every table of that      *)
(* model and from the fixture of the other, which it does not touch.       *)
(***************************************************************************)
C1Handle == Str(<<"c", "1">>)
C2Handle == Str(<<"c", "2">>)
Test1 == Str(<<"t", "e", "s", "t", "1">>)
TestTest == Str(<<"T", "E", "S", "T", "T", "E", "S", "T">>)
Nope == Str(<<"n", "o", "p", "e">>)

Absent == [absent |-> TRUE]

JobContents ==
  [title : {Test1, TestTest}, salary : {Num(50000), Num(126000)},
   equity : {Null, Num(1)}]

\* the table holding, for each id up to n, the row f gives it or none
JobTable(f, n) ==
  {[id |-> Num(i), title |-> f[i].title, salary |-> f[i].salary,
    equity |-> f[i].equity, company_handle |-> C1Handle] :
     i \in {j \in 1..n : f[j] # Absent}}

CompanyContents == [name : {Str(<<"C", "1">>), Str(<<"b", "a", "r">>)},
                    num_employees : {Num(1), Num(300)}]

CompanyTable(f) ==
  {[handle |-> h, name |-> f[h].name, description |-> Str(<<"D">>),
    num_employees |-> f[h].num_employees, logo_url |-> Null] :
     h \in {k \in {C1Handle, C2Handle} : f[k] # Absent}}

JobFixture ==
  {[id |-> Num(1), title |-> Test1, salary |-> Num(126000), equity |-> Null,
    company_handle |-> C1Handle]}

CompanyFixture ==
  {[handle |-> C1Handle, name |-> Str(<<"C", "1">>), description |-> Str(<<"D">>),
    num_employees |-> Num(1), logo_url |-> Null]}

Call(fn, args) ==
  [fn |-> fn, args |-> args, out |-> Pending, queries |-> <<>>, calls |-> <<>>]

\* the data objects of an update: every subset of the fields in the order
\* given, and one in another order
Objects(a, b, c) ==
  {<<>>, <<a>>, <<b>>, <<c>>, <<a, b>>, <<b, a>>, <<a, c>>, <<b, c>>, <<a, b, c>>}

JobUpdateData ==
  Objects(<<TitleKey, TestTest>>, <<SalaryKey, Num(50000)>>, <<EquityKey, Num(1)>>)

CompanyUpdateData ==
  Objects(<<NameKey, Str(<<"b", "a", "r">>)>>, <<NumEmployeesKey, Num(300)>>,
          <<LogoUrlKey, Null>>)

JobIds == {Num(i) : i \in 0..MaxId} \cup {Str(<<"1">>), Nope}

NewJobs ==
  [title : {Test1, TestTest}, salary : {Num(126000)}, equity : {Null},
   company_handle : {C1Handle}]

NewCompanies ==
  [handle : {C1Handle, C2Handle}, name : {Str(<<"C", "1">>)},
   description : {Str(<<"D">>)}, numEmployees : {Num(1)}, logoUrl : {Null}]

Tokens == {"none", "invalid", "valid"}

JobFilters ==
  {Undefined, Str(<<"t", "e", "s", "t">>)} \X {Undefined, Num(100000)}
    \X {Undefined, Bool(TRUE)}

\* req.query: every value a string
JobQueries ==
  {Undefined, Str(<<"T", "e", "s", "t">>)}
    \X {Undefined, Str(<<"1", "0", "0", "0", "0", "0">>)}
    \X {Undefined, Str(<<"t", "r", "u", "e">>)}

CompanyFilters ==
  {Undefined, Str(<<"b", "a">>)} \X {Undefined, Num(0), Num(200)}
    \X {Undefined, Num(0), Num(500)}

JobCalls ==
  {Call("Job.update", <<id, data>>) : id \in JobIds, data \in JobUpdateData}
  \cup {Call("Job.remove", <<id>>) : id \in JobIds}
  \cup {Call("Job.create", <<data>>) : data \in NewJobs}
  \cup {Call("Job.findAll", f) : f \in JobFilters}
  \cup {Call("POST /jobs", <<token, body, valid>>) :
          token \in Tokens, body \in NewJobs, valid \in BOOLEAN}
  \cup {Call("GET /jobs", <<token, query>>) : token \in Tokens, query \in JobQueries}
  \cup {Call("PATCH /jobs/:id", <<token, id, body, valid>>) :
          token \in Tokens, id \in {Str(<<"1">>), Nope},
          body \in {<<>>, << <<TitleKey, TestTest>> >>}, valid \in BOOLEAN}
  \cup {Call("DELETE /jobs/:id", <<token, id>>) :
          token \in Tokens, id \in {Str(<<"1">>), Nope}}

CompanyCalls ==
  {Call("Company.update", <<handle, data>>) :
     handle \in {C1Handle, C2Handle, Nope}, data \in CompanyUpdateData}
  \cup {Call("Company.remove", <<handle>>) : handle \in {C1Handle, C2Handle, Nope}}
  \cup {Call("Company.create", <<data>>) : data \in NewCompanies}
  \cup {Call("Company.findAll", f) : f \in CompanyFilters}

Init ==
  \/ /\ \E n \in 0..MaxId :
          /\ nextId = n + 1
          /\ \E f \in [1..n -> JobContents \cup {Absent}] : jobs = JobTable(f, n)
     /\ companies = CompanyFixture
     /\ last \in JobCalls
     /\ tasks = <<>>
  \/ /\ jobs = JobFixture
     /\ nextId = 2
     /\ \E f \in [{C1Handle, C2Handle} -> CompanyContents \cup {Absent}] :
          companies = CompanyTable(f)
     /\ last \in CompanyCalls
     /\ tasks = <<>>

\* the call recorded in `last` is fn and has not run
Called(fn) == last.fn = fn /\ last.out = Pending

\* a call of a Job function or a /jobs handler runs, with effect e
JobStep(e) ==
  /\ jobs' = e.table
  /\ UNCHANGED <<companies, tasks>>

CompanyStep(e) ==
  /\ companies' = e.table
  /\ last' = [last EXCEPT !.out = e.out, !.queries = e.queries]
  /\ UNCHANGED <<jobs, nextId, tasks>>

CallJobFindAll ==
  /\ Called("Job.findAll")
  /\ LET e == JobFindAll(jobs, last.args[1], last.args[2], last.args[3])
     IN  /\ JobStep(e)
         /\ last' = [last EXCEPT !.out = e.out, !.queries = e.queries]
  /\ UNCHANGED nextId

CallJobUpdate ==
  /\ Called("Job.update")
  /\ LET e == JobUpdate(jobs, last.args[1], last.args[2])
     IN  /\ JobStep(e)
         /\ last' = [last EXCEPT !.out = e.out, !.queries = e.queries]
  /\ UNCHANGED nextId

CallJobRemove ==
  /\ Called("Job.remove")
  /\ LET e == JobRemove(jobs, last.args[1])
     IN  /\ JobStep(e)
         /\ last' = [last EXCEPT !.out = e.out, !.queries = e.queries]
  /\ UNCHANGED nextId

\* the serial column gives ids up to MaxId
CallJobCreate ==
  /\ Called("Job.create")
  /\ nextId <= MaxId
  /\ LET e == JobCreate(jobs, nextId, last.args[1])
     IN  /\ JobStep(e)
         /\ last' = [last EXCEPT !.out = e.out, !.queries = e.queries]
         /\ nextId' = IF e.out.kind = "return" THEN nextId + 1 ELSE nextId

RoutePostJobs ==
  /\ Called("POST /jobs")
  /\ nextId <= MaxId
  /\ LET e == PostJobs(jobs, nextId, last.args[1], last.args[2], last.args[3])
     IN  /\ JobStep(e)
         /\ last' = [last EXCEPT !.out = e.out, !.queries = e.queries,
                                 !.calls = e.calls]
         /\ nextId' = IF e.out.status = 201 THEN nextId + 1 ELSE nextId

RouteGetJobs ==
  /\ Called("GET /jobs")
  /\ LET e == GetJobs(jobs, last.args[2])
     IN  /\ JobStep(e)
         /\ last' = [last EXCEPT !.out = e.out, !.queries = e.queries,
                                 !.calls = e.calls]
  /\ UNCHANGED nextId

RoutePatchJobsId ==
  /\ Called("PATCH /jobs/:id")
  /\ LET e == PatchJobsId(jobs, last.args[1], last.args[2], last.args[3], last.args[4])
     IN  /\ JobStep(e)
         /\ last' = [last EXCEPT !.out = e.out, !.queries = e.queries,
                                 !.calls = e.calls]
  /\ UNCHANGED nextId

RouteDeleteJobsId ==
  /\ Called("DELETE /jobs/:id")
  /\ LET e == DeleteJobsId(jobs, last.args[1], last.args[2])
     IN  /\ JobStep(e)
         /\ last' = [last EXCEPT !.out = e.out, !.queries = e.queries,
                                 !.calls = e.calls]
  /\ UNCHANGED nextId

CallCompanyFindAll ==
  /\ Called("Company.findAll")
  /\ CompanyStep(CompanyFindAll(companies, last.args[1], last.args[2], last.args[3]))

CallCompanyUpdate ==
  /\ Called("Company.update")
  /\ CompanyStep(CompanyUpdate(companies, last.args[1], last.args[2]))

CallCompanyRemove ==
  /\ Called("Company.remove")
  /\ CompanyStep(CompanyRemove(companies, last.args[1]))

CallCompanyCreate ==
  /\ Called("Company.create")
  /\ CompanyStep(CompanyCreate(companies, last.args[1]))

Next ==
  \/ CallJobFindAll
  \/ CallJobUpdate
  \/ CallJobRemove
  \/ CallJobCreate
  \/ RoutePostJobs
  \/ RouteGetJobs
  \/ RoutePatchJobsId
  \/ RouteDeleteJobsId
  \/ CallCompanyFindAll
  \/ CallCompanyUpdate
  \/ CallCompanyRemove
  \/ CallCompanyCreate

Spec == Init /\ [][Next]_vars

(***************************************************************************)
(* Calls of Job.create and Company.create in flight.  Each is an async     *)
(* function with two awaited queries: the duplicate check and the INSERT.  *)
(* A client's call is a record with its position (pc): "duplicateCheck"    *)
(* before the first query has run, "insert" when its rows have come back,  *)
(* "done" when the call has returned or thrown.  The code after the first  *)
(* await runs in one turn up to the second query, so the test of the rows  *)
(* and the INSERT are one step, taken on the table as it is by then.       *)
(* `last` is the call that ended last.                                     *)
(***************************************************************************)
\* the number of clients whose calls may be in flight together
Clients == 2

Idle == [fn |-> "none", args |-> <<>>, pc |-> "done", duplicateCheck |-> {},
         out |-> Pending]

\* a call just made: nothing of its body has run
Task(fn, data) ==
  [fn |-> fn, args |-> <<data>>, pc |-> "duplicateCheck", duplicateCheck |-> {},
   out |-> Pending]

Ended(t) == [fn |-> t.fn, args |-> t.args, out |-> t.out]

\* client p calls Job.create(data)
StartJobCreate(p, data) ==
  /\ tasks[p].pc = "done"
  /\ tasks' = [tasks EXCEPT ![p] = Task("Job.create", data)]
  /\ UNCHANGED <<jobs, companies, nextId, last>>

\* the first query of p's Job.create runs and its rows come back
AwaitJobDuplicateCheck(p) ==
  /\ tasks[p].fn = "Job.create"
  /\ tasks[p].pc = "duplicateCheck"
  /\ tasks' = [tasks EXCEPT
                 ![p].duplicateCheck = JobDuplicateCheck(jobs, tasks[p].args[1]),
                 ![p].pc = "insert"]
  /\ UNCHANGED <<jobs, companies, nextId, last>>

\* p's Job.create goes on: it throws, or its INSERT runs and it returns the
\* job; the serial column gives ids up to MaxId
AwaitJobInsert(p) ==
  /\ tasks[p].fn = "Job.create"
  /\ tasks[p].pc = "insert"
  /\ tasks[p].duplicateCheck = {} => nextId <= MaxId
  /\ LET e == JobCreateInsert(jobs, nextId, tasks[p].args[1], tasks[p].duplicateCheck)
         t == [tasks[p] EXCEPT !.out = e.out, !.pc = "done"]
     IN  /\ jobs' = e.table
         /\ nextId' = IF e.out.kind = "return" THEN nextId + 1 ELSE nextId
         /\ tasks' = [tasks EXCEPT ![p] = t]
         /\ last' = Ended(t)
  /\ UNCHANGED companies

\* client p calls Company.create(data)
StartCompanyCreate(p, data) ==
  /\ tasks[p].pc = "done"
  /\ tasks' = [tasks EXCEPT ![p] = Task("Company.create", data)]
  /\ UNCHANGED <<jobs, companies, nextId, last>>

AwaitCompanyDuplicateCheck(p) ==
  /\ tasks[p].fn = "Company.create"
  /\ tasks[p].pc = "duplicateCheck"
  /\ tasks' = [tasks EXCEPT
                 ![p].duplicateCheck = CompanyDuplicateCheck(companies, tasks[p].args[1]),
                 ![p].pc = "insert"]
  /\ UNCHANGED <<jobs, companies, nextId, last>>

AwaitCompanyInsert(p) ==
  /\ tasks[p].fn = "Company.create"
  /\ tasks[p].pc = "insert"
  /\ LET e == CompanyCreateInsert(companies, tasks[p].args[1], tasks[p].duplicateCheck)
         t == [tasks[p] EXCEPT !.out = e.out, !.pc = "done"]
     IN  /\ companies' = e.table
         /\ tasks' = [tasks EXCEPT ![p] = t]
         /\ last' = Ended(t)
  /\ UNCHANGED <<jobs, nextId>>

\* one client, awaiting each call before it makes the next (as the tests do)
InitSequence ==
  /\ jobs = {}
  /\ companies = CompanyFixture
  /\ nextId = 1
  /\ last = NoCall
  /\ tasks = <<Idle>>

NextSequence ==
  \/ \E p \in DOMAIN tasks : \E data \in NewJobs : StartJobCreate(p, data)
  \/ \E p \in DOMAIN tasks : AwaitJobDuplicateCheck(p)
  \/ \E p \in DOMAIN tasks : AwaitJobInsert(p)
  \/ \E p \in DOMAIN tasks : \E data \in NewCompanies : StartCompanyCreate(p, data)
  \/ \E p \in DOMAIN tasks : AwaitCompanyDuplicateCheck(p)
  \/ \E p \in DOMAIN tasks : AwaitCompanyInsert(p)

SpecSequence == InitSequence /\ [][NextSequence]_vars

\* Clients clients calling Job.create, their calls in flight together
InitConcurrent ==
  /\ jobs = {}
  /\ companies = CompanyFixture
  /\ nextId = 1
  /\ last = NoCall
  /\ tasks = [p \in 1..Clients |-> Idle]

NextConcurrent ==
  \/ \E p \in DOMAIN tasks : \E data \in NewJobs : StartJobCreate(p, data)
  \/ \E p \in DOMAIN tasks : AwaitJobDuplicateCheck(p)
  \/ \E p \in DOMAIN tasks : AwaitJobInsert(p)

SpecConcurrent == InitConcurrent /\ [][NextConcurrent]_vars

(***************************************************************************)
(* Calls of createFilterSql in flight.  The function has no await, so a    *)
(* call runs from its first statement to its return in one turn; here its  *)
(* statements are separate steps and the steps of different clients'       *)
(* calls interleave freely, which covers every order in which whole calls  *)
(* can run.  A call's record holds its position (the input its next        *)
(* statement tests, then "return", then "done") and its two arrays, which  *)
(* are gone when it has ended.                                             *)
(***************************************************************************)
NoArrays == [sql |-> <<>>, san |-> <<>>]

IdleFilter == [fn |-> "none", args |-> <<>>, pc |-> "done", arrays |-> NoArrays,
               out |-> Pending]

\* sqlStatments and sanatizedStatments declared once for all calls, outside
\* the function
ScopeOfModule(p) == 1

\* the call whose sqlStatments and sanatizedStatments the statements of
\* client p's call read and write: the two arrays are declared in the
\* function body, so each call has its own
Scope(p) == p

FilterInputsInFlight ==
  {<<Str(<<"b", "a">>), Num(200), Num(500)>>,
   <<Undefined, Num(0), Undefined>>,
   <<Undefined, Str(<<"1", "0">>), Str(<<"9">>)>>,
   <<Str(<<"b", "a">>), Undefined, Num(9)>>,
   <<Undefined, Num(5), Undefined>>,
   <<Undefined, Undefined, Undefined>>}

JobFilterInputsInFlight ==
  {<<Str(<<"t", "e", "s", "t">>), Num(100000), Bool(TRUE)>>,
   <<Undefined, Num(5), Undefined>>,
   <<Undefined, Undefined, Bool(TRUE)>>,
   <<Undefined, Undefined, Undefined>>}

\* client p calls fn(args): the two arrays are created empty
StartFilter(p, fn, args, first) ==
  /\ tasks[p].pc = "done"
  /\ tasks' = [tasks EXCEPT
                 ![p] = [fn |-> fn, args |-> args, pc |-> first,
                         arrays |-> tasks[p].arrays, out |-> Pending],
                 ![Scope(p)].arrays = NoArrays]
  /\ UNCHANGED <<jobs, companies, nextId, last>>

StartCompanyFilter(p, args) ==
  StartFilter(p, "Company.createFilterSql", args, "name")

StartJobFilter(p, args) ==
  StartFilter(p, "Job.createFilterSql", args, "title")

\* one of the three conditional statements of Company.createFilterSql
CompanyFilterPush(p) ==
  /\ tasks[p].fn = "Company.createFilterSql"
  /\ tasks[p].pc \in {"name", "minEmployees", "maxEmployees"}
  /\ LET a == tasks[Scope(p)].arrays
         name == tasks[p].args[1]
         minEmployees == tasks[p].args[2]
         maxEmployees == tasks[p].args[3]
         pushed ==
           IF tasks[p].pc = "name"
           THEN PushFilter(a, name,
                  <<"n", "a", "m", "e", " ", "I", "L", "I", "K", "E", " ", "$">>,
                  ToString(name) \o <<"%">>)
           ELSE IF tasks[p].pc = "minEmployees"
           THEN PushFilter(a, minEmployees,
                  <<"n", "u", "m", "_", "e", "m", "p", "l", "o", "y", "e", "e", "s",
                    " ", ">", " ", "$">>,
                  ToString(minEmployees))
           ELSE PushFilter(a, maxEmployees,
                  <<"n", "u", "m", "_", "e", "m", "p", "l", "o", "y", "e", "e", "s",
                    " ", "<", " ", "$">>,
                  ToString(maxEmployees))
         then == IF tasks[p].pc = "name" THEN "minEmployees"
                 ELSE IF tasks[p].pc = "minEmployees" THEN "maxEmployees"
                 ELSE "return"
     IN  tasks' = [tasks EXCEPT ![p].pc = then, ![Scope(p)].arrays = pushed]
  /\ UNCHANGED <<jobs, companies, nextId, last>>

\* the range test and the return of Company.createFilterSql
CompanyFilterReturn(p) ==
  /\ tasks[p].fn = "Company.createFilterSql"
  /\ tasks[p].pc = "return"
  /\ tasks' = [tasks EXCEPT
                 ![p].out = IF LessThan(tasks[p].args[3], tasks[p].args[2])
                            THEN Throw("BadRequestError")
                            ELSE FilterResult(tasks[Scope(p)].arrays),
                 ![p].pc = "done",
                 ![p].arrays = NoArrays]
  /\ UNCHANGED <<jobs, companies, nextId, last>>

\* one of the three conditional statements of Job.createFilterSql
JobFilterPush(p) ==
  /\ tasks[p].fn = "Job.createFilterSql"
  /\ tasks[p].pc \in {"title", "minSalary", "hasEquity"}
  /\ LET a == tasks[Scope(p)].arrays
         title == tasks[p].args[1]
         minSalary == tasks[p].args[2]
         hasEquity == tasks[p].args[3]
         pushed ==
           IF tasks[p].pc = "title"
           THEN PushFilter(a, title,
                  <<"t", "i", "t", "l", "e", " ", "I", "L", "I", "K", "E", " ", "$">>,
                  ToString(title) \o <<"%">>)
           ELSE IF tasks[p].pc = "minSalary"
           THEN PushFilter(a, minSalary,
                  <<"s", "a", "l", "a", "r", "y", " ", ">", " ", "$">>,
                  ToString(minSalary))
           ELSE IF Truthy(hasEquity)
           THEN [a EXCEPT !.sql =
                   Append(@, <<"e", "q", "u", "i", "t", "y", " ", ">", " ", "0">>)]
           ELSE a
         then == IF tasks[p].pc = "title" THEN "minSalary"
                 ELSE IF tasks[p].pc = "minSalary" THEN "hasEquity"
                 ELSE "return"
     IN  tasks' = [tasks EXCEPT ![p].pc = then, ![Scope(p)].arrays = pushed]
  /\ UNCHANGED <<jobs, companies, nextId, last>>

JobFilterReturn(p) ==
  /\ tasks[p].fn = "Job.createFilterSql"
  /\ tasks[p].pc = "return"
  /\ tasks' = [tasks EXCEPT
                 ![p].out = FilterResult(tasks[Scope(p)].arrays),
                 ![p].pc = "done",
                 ![p].arrays = NoArrays]
  /\ UNCHANGED <<jobs, companies, nextId, last>>

InitFilterConcurrent ==
  /\ jobs = {}
  /\ companies = {}
  /\ nextId = 1
  /\ last = NoCall
  /\ tasks = [p \in 1..Clients |-> IdleFilter]

NextFilterConcurrent ==
  \/ \E p \in DOMAIN tasks : \E args \in FilterInputsInFlight :
       StartCompanyFilter(p, args)
  \/ \E p \in DOMAIN tasks : CompanyFilterPush(p)
  \/ \E p \in DOMAIN tasks : CompanyFilterReturn(p)
  \/ \E p \in DOMAIN tasks : \E args \in JobFilterInputsInFlight :
       StartJobFilter(p, args)
  \/ \E p \in DOMAIN tasks : JobFilterPush(p)
  \/ \E p \in DOMAIN tasks : JobFilterReturn(p)

SpecFilterConcurrent == InitFilterConcurrent /\ [][NextFilterConcurrent]_vars

(***************************************************************************)
(* Vocabulary of the properties of the filter builders.                    *)
(***************************************************************************)
\* the call recorded in `last` is a finished call of fn
Finished(fn) == last.fn = fn /\ last.out # Pending

ReturnedClause == last.out.kind = "return" /\ last.out.value.type = "object"

\* the leading run of decimal digits of s
RECURSIVE DigitRun(_)
DigitRun(s) ==
  IF Len(s) > 0 /\ IsDigit(s[1]) THEN <<s[1]>> \o DigitRun(Tail(s)) ELSE <<>>

\* the numbers of the placeholders $n of a clause text, left to right
RECURSIVE Placeholders(_)
Placeholders(text) ==
  IF Len(text) = 0 THEN <<>>
  ELSE IF text[1] = "$"
       THEN <<DigitsToNumber(DigitRun(Tail(text)))>> \o Placeholders(Tail(text))
       ELSE Placeholders(Tail(text))

\* text holds frag as a substring
HasFragment(text, frag) ==
  \E i \in 1..(Len(text) - Len(frag) + 1) : SubSeq(text, i, i + Len(frag) - 1) = frag

\* a bound given as a number or as a non-empty string of decimal digits
IsNumeric(v) ==
  \/ v.t = "number"
  \/ v.t = "string" /\ Len(v.s) > 0 /\ \A i \in 1..Len(v.s) : IsDigit(v.s[i])

NumericValue(v) == IF v.t = "number" THEN v.n ELSE DigitsToNumber(v.s)

\* C1: whenever Company.createFilterSql or Job.createFilterSql returns a
\* clause, the placeholders of its text are $1..$k left to right, without gap
\* or repeat, and k is the length of sanatizedStatments.
C1_PlaceholdersNumberTheBinds ==
  (/\ Finished("Company.createFilterSql") \/ Finished("Job.createFilterSql")
   /\ ReturnedClause)
  => Placeholders(last.out.value.sqlStatments)
       = [i \in 1..Len(last.out.value.sanatizedStatments) |-> i]

\* C1's case: a job filter whose first input is skipped and whose constant
\* equity fragment follows a numbered one
C1_Witness ==
  /\ Finished("Job.createFilterSql")
  /\ last.args = <<Undefined, Num(5), Bool(TRUE)>>
  /\ ReturnedClause
  /\ Placeholders(last.out.value.sqlStatments) = <<1>>

\* C2 (as claimed): with both bounds supplied, as numbers or as strings of
\* decimal digits, and the maximum numerically below the minimum,
\* Company.createFilterSql throws BadRequestError and returns nothing.
C2_MaxBelowMinIsRejected ==
  (/\ Finished("Company.createFilterSql")
   /\ IsNumeric(last.args[2])
   /\ IsNumeric(last.args[3])
   /\ NumericValue(last.args[3]) < NumericValue(last.args[2]))
  => last.out = Throw("BadRequestError")

\* C3 (as claimed): a numeric filter input supplied as the number zero is
\* included: the call returns a clause with the input's comparison fragment
\* and the bind value "0" at the fragment's placeholder.
C3_ZeroIsIncluded ==
  /\ (/\ Finished("Company.createFilterSql")
      /\ last.out.kind = "return"
      /\ last.args[2] = Num(0))
     => /\ last.out.value.type = "object"
        /\ \E k \in 1..Len(last.out.value.sanatizedStatments) :
             /\ last.out.value.sanatizedStatments[k] = <<"0">>
             /\ HasFragment(last.out.value.sqlStatments,
                  <<"n", "u", "m", "_", "e", "m", "p", "l", "o", "y", "e", "e", "s",
                    " ", ">", " ", "$">> \o NumberToString(k))
  /\ (/\ Finished("Company.createFilterSql")
      /\ last.out.kind = "return"
      /\ last.args[3] = Num(0))
     => /\ last.out.value.type = "object"
        /\ \E k \in 1..Len(last.out.value.sanatizedStatments) :
             /\ last.out.value.sanatizedStatments[k] = <<"0">>
             /\ HasFragment(last.out.value.sqlStatments,
                  <<"n", "u", "m", "_", "e", "m", "p", "l", "o", "y", "e", "e", "s",
                    " ", "<", " ", "$">> \o NumberToString(k))
  /\ (/\ Finished("Job.createFilterSql")
      /\ last.out.kind = "return"
      /\ last.args[2] = Num(0))
     => /\ last.out.value.type = "object"
        /\ \E k \in 1..Len(last.out.value.sanatizedStatments) :
             /\ last.out.value.sanatizedStatments[k] = <<"0">>
             /\ HasFragment(last.out.value.sqlStatments,
                  <<"s", "a", "l", "a", "r", "y", " ", ">", " ", "$">>
                    \o NumberToString(k))

\* the fragments of a clause, joined as the claims write them
RECURSIVE JoinedByAnd(_)
JoinedByAnd(frags) ==
  IF Len(frags) = 0 THEN <<>>
  ELSE IF Len(frags) = 1 THEN frags[1]
  ELSE frags[1] \o <<" ", "A", "N", "D", " ">> \o JoinedByAnd(Tail(frags))

Only(b, x) == IF b THEN <<x>> ELSE <<>>
Count(b) == IF b THEN 1 ELSE 0

\* the string form of a bound: the digits of a number, a string as it is
StringForm(v) == IF v.t = "number" THEN NumberToString(v.n) ELSE v.s

\* the clause C5 describes, for the inputs marked supplied
CompanyClauseOf(name, lo, hi, sn, sl, sh) ==
  Clause(
    <<"W", "H", "E", "R", "E", " ">> \o JoinedByAnd(
      Only(sn, <<"n", "a", "m", "e", " ", "I", "L", "I", "K", "E", " ", "$", "1">>)
      \o Only(sl, <<"n", "u", "m", "_", "e", "m", "p", "l", "o", "y", "e", "e", "s",
                    " ", ">", " ", "$">> \o NumberToString(Count(sn) + 1))
      \o Only(sh, <<"n", "u", "m", "_", "e", "m", "p", "l", "o", "y", "e", "e", "s",
                    " ", "<", " ", "$">> \o NumberToString(Count(sn) + Count(sl) + 1))),
    Only(sn, StringForm(name) \o <<"%">>)
    \o Only(sl, StringForm(lo)) \o Only(sh, StringForm(hi)))

\* a name that is absent or a non-empty string; a bound that is absent, a
\* number or a non-empty string of decimal digits
PlainName(v) == v = Undefined \/ (v.t = "string" /\ Len(v.s) > 0)
PlainBound(v) == v = Undefined \/ IsNumeric(v)

\* C5 (as claimed): for every valid input with at least one value supplied,
\* Company.createFilterSql returns 'WHERE ' and the fragments of exactly the
\* supplied inputs, in the order name, minEmployees, maxEmployees, joined by
\* ' AND ', with the bind list name + '%' and the string form of each
\* supplied bound; ('ba', 200, 500) gives the three-fragment clause with
\* ['ba%', '200', '500'].
C5_ClauseOfExactlyTheSuppliedInputs ==
  Finished("Company.createFilterSql") =>
    LET name == last.args[1]
        lo == last.args[2]
        hi == last.args[3]
    IN  /\ (/\ PlainName(name) /\ PlainBound(lo) /\ PlainBound(hi)
            /\ name # Undefined \/ lo # Undefined \/ hi # Undefined
            /\ ~(/\ lo # Undefined
                 /\ hi # Undefined
                 /\ NumericValue(hi) < NumericValue(lo)))
           => last.out = Return(CompanyClauseOf(name, lo, hi, name # Undefined,
                                                lo # Undefined, hi # Undefined))
        /\ last.args = <<Str(<<"b", "a">>), Num(200), Num(500)>>
           => last.out = Return(Clause(
                <<"W", "H", "E", "R", "E", " ",
                  "n", "a", "m", "e", " ", "I", "L", "I", "K", "E", " ", "$", "1",
                  " ", "A", "N", "D", " ",
                  "n", "u", "m", "_", "e", "m", "p", "l", "o", "y", "e", "e", "s",
                  " ", ">", " ", "$", "2",
                  " ", "A", "N", "D", " ",
                  "n", "u", "m", "_", "e", "m", "p", "l", "o", "y", "e", "e", "s",
                  " ", "<", " ", "$", "3">>,
                << <<"b", "a", "%">>, <<"2", "0", "0">>, <<"5", "0", "0">> >>))

\* the value C6 describes, for the fragments marked emitted
JobValueOf(title, minSalary, et, es, ee) ==
  IF ~(et \/ es \/ ee) THEN NoFilter
  ELSE Clause(
    <<"W", "H", "E", "R", "E", " ">> \o JoinedByAnd(
      Only(et, <<"t", "i", "t", "l", "e", " ", "I", "L", "I", "K", "E", " ", "$", "1">>)
      \o Only(es, <<"s", "a", "l", "a", "r", "y", " ", ">", " ", "$">>
                    \o NumberToString(Count(et) + 1))
      \o Only(ee, <<"e", "q", "u", "i", "t", "y", " ", ">", " ", "0">>)),
    Only(et, StringForm(title) \o <<"%">>) \o Only(es, StringForm(minSalary)))

\* C6: Job.createFilterSql emits fragments only for supplied inputs, in the
\* order title, minSalary, hasEquity; a truthy hasEquity adds 'equity > 0'
\* with no placeholder and no bind value, an absent hasEquity adds nothing;
\* ('test', 100000, undefined) gives 'WHERE title ILIKE $1 AND salary > $2'
\* with ['test%', '100000'].
C6_JobFragmentsAndConstantEquity ==
  Finished("Job.createFilterSql") =>
    LET title == last.args[1]
        minSalary == last.args[2]
        hasEquity == last.args[3]
    IN  /\ \E et \in BOOLEAN, es \in BOOLEAN, ee \in BOOLEAN :
             /\ et => title # Undefined
             /\ es => minSalary # Undefined
             /\ Truthy(hasEquity) => ee
             /\ hasEquity = Undefined => ~ee
             /\ last.out = Return(JobValueOf(title, minSalary, et, es, ee))
        /\ last.args = <<Str(<<"t", "e", "s", "t">>), Num(100000), Undefined>>
           => last.out = Return(Clause(
                <<"W", "H", "E", "R", "E", " ",
                  "t", "i", "t", "l", "e", " ", "I", "L", "I", "K", "E", " ", "$", "1",
                  " ", "A", "N", "D", " ",
                  "s", "a", "l", "a", "r", "y", " ", ">", " ", "$", "2">>,
                << <<"t", "e", "s", "t", "%">>,
                   <<"1", "0", "0", "0", "0", "0">> >>))

\* C6's case: all three inputs given, the equity fragment last and unnumbered
C6_Witness ==
  /\ Finished("Job.createFilterSql")
  /\ last.args = <<Str(<<"t", "e", "s", "t">>), Num(100000), Str(<<"t", "r", "u", "e">>)>>
  /\ ReturnedClause
  /\ Len(last.out.value.sanatizedStatments) = 2
  /\ HasFragment(last.out.value.sqlStatments,
       <<" ", "A", "N", "D", " ", "e", "q", "u", "i", "t", "y", " ", ">", " ", "0">>)

(***************************************************************************)
(* Vocabulary of the properties of the models and the routes.              *)
(***************************************************************************)
NoInputs == <<Undefined, Undefined, Undefined>>

JobFields == {"id", "title", "salary", "equity", "company_handle"}
CompanyFields == {"handle", "name", "description", "num_employees", "logo_url"}

\* the stored field a key of an update's data names
FieldOfKey(key) ==
  CASE key = TitleKey -> "title"
    [] key = SalaryKey -> "salary"
    [] key = EquityKey -> "equity"
    [] key = NameKey -> "name"
    [] key = NumEmployeesKey -> "num_employees"
    [] key = LogoUrlKey -> "logo_url"

\* the row an identifier names: a job by the number of its id, given as a
\* number or as decimal text; a company by its handle
IdentifiedBy(r, key, id) ==
  IF key = "id"
  THEN IsNumeric(id) /\ r.id.n = NumericValue(id)
  ELSE r.handle = id

Matched(table, key, id) == \E r \in table : IdentifiedBy(r, key, id)

\* after is before with the row named by id holding the values of data in
\* the fields data names, its other fields as before, and the other rows as
\* they were
PartialUpdate(before, after, fields, key, id, data) ==
  \E r \in before, r2 \in after :
    /\ IdentifiedBy(r, key, id)
    /\ IdentifiedBy(r2, key, id)
    /\ \A i \in 1..Len(data) : r2[FieldOfKey(data[i][1])] = data[i][2]
    /\ \A f \in fields :
         (\A i \in 1..Len(data) : FieldOfKey(data[i][1]) # f) => r2[f] = r[f]
    /\ after \ {r2} = before \ {r}

\* C4: with every filter input undefined, createFilterSql returns false, not
\* an object, and findAll sends its query with no WHERE clause and returns
\* every row of the table.
C4_NoFilterSelectsEveryRow ==
  [][/\ (Called("Job.findAll") /\ last.args = NoInputs)
        => /\ JobCreateFilterSql(Undefined, Undefined, Undefined) = Return(NoFilter)
           /\ last'.queries = <<Query("SELECT", "jobs", <<>>)>>
           /\ last'.out = Return({JobReturning(r) : r \in jobs})
           /\ jobs' = jobs
     /\ (Called("Company.findAll") /\ last.args = NoInputs)
        => /\ CompanyCreateFilterSql(Undefined, Undefined, Undefined) = Return(NoFilter)
           /\ last'.queries = <<Query("SELECT", "companies", <<>>)>>
           /\ last'.out = Return({CompanyReturning(r) : r \in companies})
           /\ companies' = companies]_vars

\* C4's case: findAll() has run on a table of two jobs and returned two
C4_Witness ==
  /\ Finished("Job.findAll")
  /\ last.args = NoInputs
  /\ Cardinality(jobs) = 2
  /\ last.out.kind = "return"
  /\ Cardinality(last.out.value) = 2

\* C7: Job.update and Company.update called with empty data throw
\* BadRequestError, for every id or handle and every column map, before any
\* UPDATE is sent, and the stored rows are unchanged.
C7_EmptyDataIsRejectedBeforeTheQuery ==
  [][/\ (Called("Job.update") /\ last.args[2] = <<>>)
        => /\ last'.out = Throw("BadRequestError")
           /\ last'.queries = <<>>
           /\ jobs' = jobs
     /\ (Called("Company.update") /\ last.args[2] = <<>>)
        => /\ last'.out = Throw("BadRequestError")
           /\ last'.queries = <<>>
           /\ companies' = companies
     /\ \A m \in {{}, JobJsToSql, CompanyJsToSql} :
          SqlForPartialUpdate(<<>>, m) = Throw("BadRequestError")]_vars

\* C7's case: update(id, {}) on the id of a stored job
C7_Witness ==
  /\ Finished("Job.update")
  /\ last.args[2] = <<>>
  /\ Matched(jobs, "id", last.args[1])
  /\ last.out = Throw("BadRequestError")

\* C8: a successful update(id, data) is a partial update: the row id names
\* holds the new value of every field in data, keeps every other field, and
\* every other row is unchanged.
C8_UpdateIsPartial ==
  [][/\ (Called("Job.update") /\ last'.out.kind = "return")
        => PartialUpdate(jobs, jobs', JobFields, "id", last.args[1], last.args[2])
     /\ (Called("Company.update") /\ last'.out.kind = "return")
        => PartialUpdate(companies, companies', CompanyFields, "handle",
                         last.args[1], last.args[2])]_vars

\* C8's case: a title alone was updated in a table of two jobs
C8_Witness ==
  /\ Finished("Job.update")
  /\ last.out.kind = "return"
  /\ last.args = <<Num(2), << <<TitleKey, TestTest>> >> >>
  /\ \E r \in jobs : r.id = Num(2) /\ r.title = TestTest /\ r.salary = Num(126000)
  /\ \E r \in jobs : r.id = Num(1) /\ r.title = Test1

MutatingRoutes == {"POST /jobs", "PATCH /jobs/:id", "DELETE /jobs/:id"}

\* C10: a POST, PATCH or DELETE on /jobs without a valid token is answered
\* 401 before Job.create, Job.update or Job.remove is called, and the jobs
\* table is unchanged; GET /jobs is served whatever the token.
C10_MutatingRoutesNeedAToken ==
  [][/\ (/\ last.fn \in MutatingRoutes
         /\ last.out = Pending
         /\ last.args[1] # "valid")
        => /\ last'.out = Response(401)
           /\ last'.calls = <<>>
           /\ last'.queries = <<>>
           /\ jobs' = jobs
           /\ nextId' = nextId
     /\ Called("GET /jobs")
        => /\ last'.calls = <<"Job.findAll">>
           /\ last'.out.status # 401]_vars

\* C10's case: a PATCH without token, on a stored job, with a body that
\* would change it
C10_Witness ==
  /\ Finished("PATCH /jobs/:id")
  /\ last.args = <<"none", Str(<<"1">>), << <<TitleKey, TestTest>> >>, TRUE>>
  /\ \E r \in jobs : r.id = Num(1) /\ r.title = Test1
  /\ last.out = Response(401)

\* a bound the builder treats as supplied: `minEmployees ? ... : null`
SuppliedBound(v) == Truthy(v)

\* C13 (as claimed): when at most one of minEmployees and maxEmployees is
\* supplied, the other being undefined, null, the empty string or another
\* value treated as not supplied, Company.createFilterSql does not throw and
\* returns the clause of the supplied inputs (false when none is supplied).
C13_OneBoundNeverThrows ==
  (/\ Finished("Company.createFilterSql")
   /\ ~SuppliedBound(last.args[2]) \/ ~SuppliedBound(last.args[3]))
  => LET name == last.args[1]
         lo == last.args[2]
         hi == last.args[3]
     IN  last.out =
           IF Truthy(name) \/ Truthy(lo) \/ Truthy(hi)
           THEN Return(CompanyClauseOf(name, lo, hi,
                                       Truthy(name), Truthy(lo), Truthy(hi)))
           ELSE Return(NoFilter)

\* client p's call of fn is in flight
InFlight(p, fn) == tasks[p].fn = fn /\ tasks[p].pc # "done"

\* the step ends client p's call of fn
Ends(p, fn) == InFlight(p, fn) /\ tasks'[p].pc = "done"

\* C11: with calls made one after the other, a Job.create whose
\* (company_handle, title) pair is stored and a Company.create whose handle
\* is stored throw BadRequestError and no step of the call changes the
\* table; a Job.create that follows a successful Job.create of the same data
\* throws BadRequestError and leaves exactly one row with the pair.
C11_DuplicateCreateIsRejected ==
  [][\A p \in DOMAIN tasks :
       /\ (/\ InFlight(p, "Job.create")
           /\ JobDuplicateCheck(jobs, tasks[p].args[1]) # {})
          => /\ jobs' = jobs
             /\ nextId' = nextId
             /\ Ends(p, "Job.create") => tasks'[p].out = Throw("BadRequestError")
       /\ (/\ InFlight(p, "Company.create")
           /\ CompanyDuplicateCheck(companies, tasks[p].args[1]) # {})
          => /\ companies' = companies
             /\ Ends(p, "Company.create") => tasks'[p].out = Throw("BadRequestError")
       /\ (/\ Ends(p, "Job.create")
           /\ last.fn = "Job.create"
           /\ last.args = tasks[p].args
           /\ last.out.kind = "return")
          => /\ tasks'[p].out = Throw("BadRequestError")
             /\ Cardinality(JobDuplicateCheck(jobs', tasks[p].args[1])) = 1]_vars

\* C11's case: the second of two calls that create the same job has thrown,
\* the first one's row being the only one in the table
C11_Witness ==
  /\ last.fn = "Job.create"
  /\ last.out = Throw("BadRequestError")
  /\ tasks = <<[fn |-> "Job.create", args |-> last.args, pc |-> "done",
                duplicateCheck |-> jobs, out |-> Throw("BadRequestError")]>>
  /\ Cardinality(jobs) = 1
  /\ JobDuplicateCheck(jobs, last.args[1]) = jobs

\* client p's call of Job.create has returned a job
Succeeded(p) ==
  /\ tasks[p].fn = "Job.create"
  /\ tasks[p].pc = "done"
  /\ tasks[p].out.kind = "return"

SamePair(a, b) == a.company_handle = b.company_handle /\ a.title = b.title

\* C14 (as claimed): however the steps of concurrent Job.create calls
\* interleave, no two rows of the jobs table have the same
\* (company_handle, title), and of two clients' calls with the same pair at
\* most one returns a job.
C14_ConcurrentCreatesKeepPairsUnique ==
  /\ \A r1 \in jobs : \A r2 \in jobs : SamePair(r1, r2) => r1 = r2
  /\ \A p \in DOMAIN tasks : \A q \in DOMAIN tasks :
       (/\ p # q
        /\ Succeeded(p)
        /\ Succeeded(q))
       => ~SamePair(tasks[p].args[1], tasks[q].args[1])

\* what a call of a filter builder returns or throws when it runs alone
Alone(fn, args) ==
  IF fn = "Company.createFilterSql"
  THEN CompanyCreateFilterSql(args[1], args[2], args[3])
  ELSE JobCreateFilterSql(args[1], args[2], args[3])

\* C12: however the statements of concurrent createFilterSql calls
\* interleave, and however often a client calls again, every call that has
\* ended has returned exactly the clause text and bind values (or false, or
\* thrown the error) it gives when run alone on the same inputs.
C12_CallsShareNoState ==
  \A p \in DOMAIN tasks :
    (tasks[p].fn # "none" /\ tasks[p].pc = "done")
    => tasks[p].out = Alone(tasks[p].fn, tasks[p].args)

\* C12's case: a job filter call has returned its clause while a company
\* filter call, two of its fragments pushed, has yet to push the third
C12_Witness ==
  /\ tasks[1].fn = "Company.createFilterSql"
  /\ tasks[1].args = <<Str(<<"b", "a">>), Num(200), Num(500)>>
  /\ tasks[1].pc = "maxEmployees"
  /\ Len(tasks[1].arrays.sql) = 2
  /\ tasks[2].fn = "Job.createFilterSql"
  /\ tasks[2].args = <<Str(<<"t", "e", "s", "t">>), Num(100000), Bool(TRUE)>>
  /\ tasks[2].pc = "done"
  /\ tasks[2].out = Alone(tasks[2].fn, tasks[2].args)
  /\ tasks[2].out.value.type = "object"

====
